---- MODULE Spec2Model ----
(***************************************************************************)
(* A model of the requirement-document pipeline of the AIDD repository:    *)
(*   - requirements/JsonScheme/validate_requirements.py  (SchemaValidator) *)
(*   - tools/stampingMeta.py                             (MetaStamper)     *)
(*   - deepeval/evaluate_requirements_v1.py              (Segmenter)       *)
(*   - deepeval/evaluate_requirements_v2.py              (Canonicalizer)   *)
(*   - deepeval/option/dashboard_generator.py            (ResultNormalizer)*)
(* Every component is a sequential program; each has its own              *)
(* specification over the shared variable tuple, the variables of the      *)
(* other components staying at their idle values.                          *)
(***************************************************************************)
EXTENDS Integers, Sequences, FiniteSets, TLC

VARIABLES
    \* validate_requirements.extra_checks applied to one record
    exData, exErrors, exPc,
    \* validate_requirements.main
    vDir, vTargets, vPc, vIdx, vOk, vOut, vExit, vErrors, vExtra, vChecked,
    \* validate_requirements.strip_allof_items_with_data_const on a heap of objects
    stHeap, stArg, stRet, stPc,
    \* tools/stampingMeta.main: the file system, the clock, the arguments and
    \* locals of the current run, and what earlier runs left
    mDisk, mScript, mClock, mPc, mArgs, mData, mRunId, mPromptId, mNow, mHashRes,
    mAbort, mFirst, mRuns, mLast,
    \* evaluate_requirements_v1.parse_requirements_by_id applied to one text
    sgMd, sgPc, sgOut,
    \* evaluate_requirements_v2.requirement_to_eval_text applied to one record
    cnReq, cnPc, cnOut,
    \* dashboard_generator.to_dashboard_json applied to one payload
    dbIn, dbPc, dbOut

extraVars == <<exData, exErrors, exPc>>
valVars == <<vDir, vTargets, vPc, vIdx, vOk, vOut, vExit, vErrors, vExtra, vChecked>>
stripVars == <<stHeap, stArg, stRet, stPc>>
stampVars ==
    <<mDisk, mScript, mClock, mPc, mArgs, mData, mRunId, mPromptId, mNow, mHashRes,
      mAbort, mFirst, mRuns, mLast>>
segVars == <<sgMd, sgPc, sgOut>>
canonVars == <<cnReq, cnPc, cnOut>>
dashVars == <<dbIn, dbPc, dbOut>>
vars == <<extraVars, valVars, stripVars, stampVars, segVars, canonVars, dashVars>>

(***************************************************************************)
(* Parsed YAML / JSON values.  Every value is a record of one shape:       *)
(* t is the Python type name, a the scalar's text, kids the children.      *)
(* A mapping keeps its entries in insertion order, as a Python dict does.  *)
(***************************************************************************)
Str(s) == [t |-> "str", a |-> s, kids |-> <<>>]
IntV(s) == [t |-> "int", a |-> s, kids |-> <<>>]
BoolV(s) == [t |-> "bool", a |-> s, kids |-> <<>>]
FloatV(s) == [t |-> "float", a |-> s, kids |-> <<>>]
None == [t |-> "NoneType", a |-> "None", kids |-> <<>>]
List(xs) == [t |-> "list", a |-> "", kids |-> xs]
KV(k, v) == [t |-> "kv", a |-> k, kids |-> <<v>>]
Dict(es) == [t |-> "dict", a |-> "", kids |-> es]

IsDict(v) == v.t = "dict"
IsList(v) == v.t = "list"

\* k in d
Has(d, k) == \E i \in 1..Len(d.kids) : d.kids[i].a = k

\* d.get(k, dflt)
GetOr(d, k, dflt) ==
    IF Has(d, k)
    THEN d.kids[CHOOSE i \in 1..Len(d.kids) : d.kids[i].a = k].kids[1]
    ELSE dflt

\* d.get(k)
Get(d, k) == GetOr(d, k, None)

\* bool(v)
Truthy(v) ==
    CASE v.t = "NoneType" -> FALSE
      [] v.t = "str" -> v.a # ""
      [] v.t = "int" -> v.a # "0"
      [] v.t = "float" -> v.a # "0.0"
      [] v.t = "bool" -> v.a = "True"
      [] OTHER -> v.kids # <<>>

\* seq[:n]
Take(s, n) == SubSeq(s, 1, IF Len(s) < n THEN Len(s) ELSE n)

(***************************************************************************)
(* SchemaValidator: the business-rule pass.                                *)
(***************************************************************************)
StructureError == [msg |-> "root_not_mapping", mid |-> None, rid |-> None]

\* The (wrong) variant that reports as soon as one of the two is set.
ExtraChecksEither(data) ==
    IF ~IsDict(data)
    THEN <<StructureError>>
    ELSE LET rid == Get(data, "id")
             meta == Get(data, "meta")
             mid == IF IsDict(meta) THEN Get(meta, "run_id") ELSE None
         IN  IF (rid # None \/ mid # None) /\ rid # mid
             THEN <<[msg |-> "run_id_must_equal_id", mid |-> mid, rid |-> rid]>>
             ELSE <<>>

ExtraChecks(data) ==
    IF ~IsDict(data)
    THEN <<StructureError>>
    ELSE LET rid == Get(data, "id")
             meta == Get(data, "meta")
             mid == IF IsDict(meta) THEN Get(meta, "run_id") ELSE None
         IN  IF rid # None /\ mid # None /\ rid # mid
             THEN <<[msg |-> "run_id_must_equal_id", mid |-> mid, rid |-> rid]>>
             ELSE <<>>

\* Records the business-rule pass is applied to.
IdValues == {Str("FR-001"), Str("FR-002"), Str("AR-003"), IntV("1")}
MetaValues ==
    {None, Str("stamped"), List(<<Str("FR-002")>>), Dict(<<>>),
     Dict(<<KV("prompt_id", Str("PR-003"))>>)}
    \cup {Dict(<<KV("run_id", r)>>) : r \in IdValues \cup {None}}
    \cup {Dict(<<KV("prompt_id", Str("PR-003")), KV("run_id", r)>>) : r \in IdValues}
IdEntries == {<<>>} \cup {<<KV("id", v)>> : v \in IdValues \cup {None}}
MetaEntries == {<<>>} \cup {<<KV("meta", m)>> : m \in MetaValues}
ExtraRecords ==
    {Dict(<<KV("title", Str("t"))>> \o i \o m) : i \in IdEntries, m \in MetaEntries}
    \cup {Dict(m \o i) : i \in IdEntries, m \in MetaEntries}
ExtraInputs == ExtraRecords \cup {None, List(<<Str("FR-001")>>), Str("FR-001")}

IdleExtra ==
    /\ exData = None
    /\ exErrors = <<>>
    /\ exPc = "idle"

InitExtra ==
    /\ exData \in ExtraInputs
    /\ exErrors = <<>>
    /\ exPc = "call"

RunExtraChecks ==
    /\ exPc = "call"
    /\ exErrors' = ExtraChecks(exData)
    /\ exPc' = "returned"
    /\ UNCHANGED <<exData, valVars, stripVars, stampVars, segVars, canonVars, dashVars>>

(***************************************************************************)
(* SchemaValidator: the command-line run over a requirements directory.    *)
(***************************************************************************)
MaxSchemaErrors == 1
ErrorPrintLimit == 20

\* File names of the requirements directory, in the order sorted() gives them.
NamePool ==
    << [prefix |-> "AR", num |-> "002", digits |-> 3, ext |-> "yml"],
       [prefix |-> "FR", num |-> "001", digits |-> 3, ext |-> "yaml"],
       [prefix |-> "FR", num |-> "003", digits |-> 3, ext |-> "yaml"],
       [prefix |-> "FR", num |-> "004", digits |-> 3, ext |-> "yxml"],
       [prefix |-> "FR", num |-> "01", digits |-> 2, ext |-> "yaml"] >>
NameIds == 1..Len(NamePool)

\* ROOT.glob("*.y*ml")
GlobYml(name) == name.ext \in {"yaml", "yml", "yxml"}

\* REQ_FILE_RE = ^(FR|AR)-\d{3}\.ya?ml$
ReqFileRe(name) ==
    /\ name.prefix \in {"FR", "AR"}
    /\ name.digits = 3
    /\ name.ext \in {"yaml", "yml"}

\* What a file holds: text yaml.safe_load parses (data) or rejects, and the
\* number of errors the JSON Schema library reports for that data.
GoodRecord ==
    Dict(<<KV("id", Str("FR-001")), KV("meta", Dict(<<KV("run_id", Str("FR-001"))>>))>>)
MismatchRecord ==
    Dict(<<KV("id", Str("FR-001")), KV("meta", Dict(<<KV("run_id", Str("FR-002"))>>))>>)
NoMetaRecord == Dict(<<KV("id", Str("FR-001"))>>)
FileData == {GoodRecord, MismatchRecord, NoMetaRecord, List(<<Str("FR-001")>>)}
AbsentFile == [present |-> FALSE, parses |-> FALSE, data |-> None, schemaErrors |-> 0]
BrokenFile == [present |-> TRUE, parses |-> FALSE, data |-> None, schemaErrors |-> 0]
ParsedFiles ==
    [present : {TRUE}, parses : {TRUE}, data : FileData, schemaErrors : 0..MaxSchemaErrors]
OtherFile == [present |-> TRUE, parses |-> TRUE, data |-> MismatchRecord, schemaErrors |-> 1]
\* The files the directory may hold under the name at position i.
FilesFor(i) ==
    IF ReqFileRe(NamePool[i])
    THEN ParsedFiles \cup {AbsentFile, BrokenFile}
    ELSE {AbsentFile, OtherFile}

\* validator.iter_errors(data), sorted by path
SchemaErrors(f) == [i \in 1..f.schemaErrors |-> [kind |-> "schema", n |-> i]]

\* sorted([p for p in ROOT.glob("*.y*ml") if REQ_FILE_RE.match(p.name)])
RECURSIVE SelectTargets(_, _)
SelectTargets(dir, i) ==
    IF i > Len(NamePool)
    THEN <<>>
    ELSE (IF dir[i].present /\ GlobYml(NamePool[i]) /\ ReqFileRe(NamePool[i])
          THEN <<i>>
          ELSE <<>>) \o SelectTargets(dir, i + 1)

\* The (wrong) variant that lets business-rule errors pass.
FileFailsSchemaOnly(errors, extra) == errors # <<>>

\* if errors or extra:
FileFails(errors, extra) == errors # <<>> \/ extra # <<>>

\* The lines printed for one file.
ReportLines(i, errors, extra) ==
    IF FileFails(errors, extra)
    THEN <<[kind |-> "invalid", file |-> i]>>
         \o [k \in 1..Len(Take(errors, ErrorPrintLimit)) |-> [kind |-> "error", file |-> i]]
         \o [k \in 1..Len(Take(extra, ErrorPrintLimit)) |-> [kind |-> "error", file |-> i]]
    ELSE <<[kind |-> "valid", file |-> i]>>

IdleValidator ==
    /\ vDir = [i \in NameIds |-> AbsentFile]
    /\ vTargets = <<>>
    /\ vPc = "idle"
    /\ vIdx = 0
    /\ vOk = TRUE
    /\ vOut = <<>>
    /\ vExit = -1
    /\ vErrors = <<>>
    /\ vExtra = <<>>
    /\ vChecked = {}

InitValidator ==
    /\ \E f1 \in FilesFor(1), f2 \in FilesFor(2), f3 \in FilesFor(3),
          f4 \in FilesFor(4), f5 \in FilesFor(5) :
            vDir = <<f1, f2, f3, f4, f5>>
    /\ vTargets = <<>>
    /\ vPc = "start"
    /\ vIdx = 0
    /\ vOk = TRUE
    /\ vOut = <<>>
    /\ vExit = -1
    /\ vErrors = <<>>
    /\ vExtra = <<>>
    /\ vChecked = {}

\* main(), lines 88-95: select the targets; with none, print and return.
MainSelect ==
    /\ vPc = "start"
    /\ vTargets' = SelectTargets(vDir, 1)
    /\ IF vTargets' = <<>>
       THEN /\ vOut' = <<[kind |-> "no_targets", file |-> 0]>>
            /\ vPc' = "exited"
            /\ vExit' = 0
            /\ UNCHANGED <<vIdx, vOk>>
       ELSE /\ vPc' = "validate"
            /\ vIdx' = 1
            /\ vOk' = TRUE
            /\ UNCHANGED <<vOut, vExit>>
    /\ UNCHANGED <<vDir, vErrors, vExtra, vChecked, extraVars, stripVars, stampVars, segVars, canonVars, dashVars>>

\* main(), lines 97-103: load one file and collect its errors; a file that
\* yaml.safe_load rejects ends the process with the uncaught exception.
ValidateFile ==
    /\ vPc = "validate"
    /\ vIdx <= Len(vTargets)
    /\ LET f == vDir[vTargets[vIdx]]
       IN  IF ~f.parses
           THEN /\ vPc' = "exited"
                /\ vExit' = 1
                /\ UNCHANGED <<vErrors, vExtra, vChecked>>
           ELSE /\ vErrors' = SchemaErrors(f)
                /\ vExtra' = ExtraChecks(f.data)
                /\ vChecked' = vChecked \cup {vTargets[vIdx]}
                /\ vPc' = "report"
                /\ UNCHANGED vExit
    /\ UNCHANGED <<vDir, vTargets, vIdx, vOk, vOut, extraVars, stripVars, stampVars, segVars, canonVars, dashVars>>

\* main(), lines 105-117: print the file's result and move to the next file.
ReportFile ==
    /\ vPc = "report"
    /\ vOk' = IF FileFails(vErrors, vExtra) THEN FALSE ELSE vOk
    /\ vOut' = vOut \o ReportLines(vTargets[vIdx], vErrors, vExtra)
    /\ vIdx' = vIdx + 1
    /\ vPc' = "validate"
    /\ UNCHANGED <<vDir, vTargets, vExit, vErrors, vExtra, vChecked, extraVars, stripVars, stampVars, segVars, canonVars, dashVars>>

\* main(), line 120: raise SystemExit(0 if ok else 1)
MainExit ==
    /\ vPc = "validate"
    /\ vIdx > Len(vTargets)
    /\ vExit' = IF vOk THEN 0 ELSE 1
    /\ vPc' = "exited"
    /\ UNCHANGED <<vDir, vTargets, vIdx, vOk, vOut, vErrors, vExtra, vChecked, extraVars, stripVars, stampVars, segVars, canonVars, dashVars>>

(***************************************************************************)
(* SchemaValidator: the sanitization pass.  The caller's schema is an      *)
(* object on a heap: the top-level mapping at address "schema", whose      *)
(* allOf entry, when it is an array, refers to the list object at address  *)
(* "allOf".  The members of the array and the other entries are values the *)
(* function only reads.  dict(schema) allocates "copy", the filtered list  *)
(* is allocated at "filtered".                                             *)
(***************************************************************************)
MaxAllOf == 2

Ref(a) == [t |-> "ref", a |-> a, kids |-> <<>>]
Free == [t |-> "free", a |-> "", kids |-> <<>>]
Addrs == {"schema", "allOf", "copy", "filtered"}

\* d[k] = v
SetKey(d, k, v) ==
    IF Has(d, k)
    THEN Dict([i \in 1..Len(d.kids) |-> IF d.kids[i].a = k THEN KV(k, v) ELSE d.kids[i]])
    ELSE Dict(Append(d.kids, KV(k, v)))

\* d.pop(k, None)
PopKey(d, k) ==
    LET Keep(e) == e.a # k
    IN  Dict(SelectSeq(d.kids, Keep))

RECURSIVE ContainsDataConst(_)
ContainsDataConst(obj) ==
    IF IsDict(obj)
    THEN \E i \in 1..Len(obj.kids) :
            LET k == obj.kids[i].a
                v == obj.kids[i].kids[1]
            IN  \/ k = "const" /\ IsDict(v) /\ Has(v, "$data")
                \/ ContainsDataConst(v)
    ELSE IF IsList(obj)
         THEN \E i \in 1..Len(obj.kids) : ContainsDataConst(obj.kids[i])
         ELSE FALSE

\* The (wrong) variant that works on the caller's mapping instead of a copy.
StripInPlace(heap, arg) ==
    IF ~IsDict(heap[arg])
    THEN [heap |-> heap, ret |-> arg]
    ELSE LET all_of == Get(heap[arg], "allOf")
         IN  IF all_of.t = "ref" /\ IsList(heap[all_of.a])
             THEN LET Kept(item) == ~ContainsDataConst(item)
                      filtered == SelectSeq(heap[all_of.a].kids, Kept)
                  IN  IF filtered # <<>>
                      THEN [heap |-> [heap EXCEPT
                                          !["filtered"] = List(filtered),
                                          ![arg] = SetKey(heap[arg], "allOf", Ref("filtered"))],
                            ret |-> arg]
                      ELSE [heap |-> [heap EXCEPT ![arg] = PopKey(heap[arg], "allOf")],
                            ret |-> arg]
             ELSE [heap |-> heap, ret |-> arg]

\* strip_allof_items_with_data_const(schema): the heap it leaves and the
\* address it returns.
StripAllOf(heap, arg) ==
    IF ~IsDict(heap[arg])
    THEN [heap |-> heap, ret |-> arg]
    ELSE LET copied == [heap EXCEPT !["copy"] = heap[arg]]
             all_of == Get(copied["copy"], "allOf")
         IN  IF all_of.t = "ref" /\ IsList(copied[all_of.a])
             THEN LET Kept(item) == ~ContainsDataConst(item)
                      filtered == SelectSeq(copied[all_of.a].kids, Kept)
                  IN  IF filtered # <<>>
                      THEN [heap |-> [copied EXCEPT
                                          !["filtered"] = List(filtered),
                                          !["copy"] = SetKey(copied["copy"], "allOf", Ref("filtered"))],
                            ret |-> "copy"]
                      ELSE [heap |-> [copied EXCEPT !["copy"] = PopKey(copied["copy"], "allOf")],
                            ret |-> "copy"]
             ELSE [heap |-> copied, ret |-> "copy"]

\* The value an address holds, the reference of its allOf entry followed.
Resolve(heap, a) ==
    IF ~IsDict(heap[a])
    THEN heap[a]
    ELSE Dict([i \in 1..Len(heap[a].kids) |->
                  IF heap[a].kids[i].kids[1].t = "ref"
                  THEN KV(heap[a].kids[i].a, heap[heap[a].kids[i].kids[1].a])
                  ELSE heap[a].kids[i]])

\* Schemas the pass is applied to.
DataConst == Dict(<<KV("const", Dict(<<KV("$data", Str("1/id"))>>))>>)
PlainConst == Dict(<<KV("const", Str("FR"))>>)
Members ==
    { DataConst,
      PlainConst,
      Dict(<<KV("const", Dict(<<KV("other", Str("x"))>>))>>),
      Dict(<<KV("$data", Str("1/id"))>>),
      Dict(<<KV("const", List(<<Dict(<<KV("$data", Str("1/id"))>>)>>))>>),
      Dict(<<KV("properties", Dict(<<KV("run_id", DataConst)>>))>>),
      Dict(<<KV("properties", Dict(<<KV("run_id", PlainConst)>>))>>),
      Dict(<<KV("anyOf", List(<<PlainConst, DataConst>>))>>),
      Dict(<<KV("allOf", List(<<DataConst>>))>>),
      Str("x") }
AllOfLists(n) == [1..n -> Members]
NestedEntries ==
    { <<>>,
      <<KV("properties", Dict(<<KV("meta", PlainConst)>>))>>,
      <<KV("properties", Dict(<<KV("meta", Dict(<<KV("allOf", List(<<DataConst>>))>>))>>))>>,
      <<KV("properties",
           Dict(<<KV("meta", Dict(<<KV("allOf", List(<<PlainConst, DataConst>>))>>))>>))>> }
NoHeap == [a \in Addrs |-> Free]

IdleStrip ==
    /\ stHeap = NoHeap
    /\ stArg = "schema"
    /\ stRet = "none"
    /\ stPc = "idle"

InitStrip ==
    /\ \/ \E n \in NestedEntries, k \in 0..MaxAllOf, first \in BOOLEAN :
          \E l \in AllOfLists(k) :
            stHeap = [NoHeap EXCEPT
                         !["schema"] = Dict(IF first
                                            THEN <<KV("allOf", Ref("allOf"))>> \o n
                                            ELSE n \o <<KV("allOf", Ref("allOf"))>>),
                         !["allOf"] = List(l)]
       \/ \E n \in NestedEntries, v \in {<<>>, <<KV("allOf", Str("x"))>>} :
            stHeap = [NoHeap EXCEPT !["schema"] = Dict(n \o v)]
       \/ \E k \in 0..MaxAllOf :
          \E l \in AllOfLists(k) : stHeap = [NoHeap EXCEPT !["schema"] = List(l)]
    /\ stArg = "schema"
    /\ stRet = "none"
    /\ stPc = "call"

\* schema = strip_allof_items_with_data_const(raw_schema)
RunStrip ==
    /\ stPc = "call"
    /\ LET r == StripAllOf(stHeap, stArg)
       IN  /\ stHeap' = r.heap
           /\ stRet' = r.ret
    /\ stPc' = "returned"
    /\ UNCHANGED <<stArg, extraVars, valVars, stampVars, segVars, canonVars, dashVars>>

(***************************************************************************)
(* Text: a string is a sequence of characters; " " stands for a blank or   *)
(* tab, "\n" for a line break, every other element for a run of            *)
(* non-whitespace characters.                                              *)
(***************************************************************************)
IsSpace(c) == c \in {" ", "\n"}

RECURSIVE LStrip(_)
LStrip(s) == IF s # <<>> /\ IsSpace(Head(s)) THEN LStrip(Tail(s)) ELSE s

RECURSIVE RStrip(_)
RStrip(s) ==
    IF s # <<>> /\ IsSpace(s[Len(s)]) THEN RStrip(SubSeq(s, 1, Len(s) - 1)) ELSE s

\* str.strip()
Strip(s) == RStrip(LStrip(s))

(***************************************************************************)
(* MetaStamper.  A file is modelled by the document yaml.safe_load reads   *)
(* from it; yaml.safe_dump(data, sort_keys=False) writes the text that     *)
(* loads back to data, the keys in insertion order.                        *)
(***************************************************************************)
MaxRuns == 2
MaxClock == 1

Pending == Str("PENDING")
ModelName == Str("gpt-5.2")
RequiredMeta == <<"run_id", "prompt_id", "timestamp", "model", "output_hash">>

\* The digest string of a file's content: equal contents, equal digests, and
\* no two contents share one.
Digest(content) == [t |-> "str", a |-> "sha256", kids |-> <<content>>]

\* What the hashing script may answer for a file: its exit status and the
\* lines of its standard output.
HashTool(content) ==
    { [returncode |-> 0, stdout |-> <<Digest(content)>>],
      [returncode |-> 0, stdout |-> <<Str("hashing"), Digest(content)>>],
      [returncode |-> 1, stdout |-> <<Str("Traceback")>>],
      [returncode |-> 0, stdout |-> <<>>] }
NoHashRes == [returncode |-> -1, stdout |-> <<>>]

\* now_str(): the clock's minute
NowStr(clock) == Str(ToString(clock))

\* The (wrong) variant that trusts the output whatever the exit status.
RunSha256AnyStatus(res) ==
    IF res.stdout = <<>>
    THEN [ok |-> FALSE, err |-> "hash_no_output", h |-> None]
    ELSE [ok |-> TRUE, err |-> "", h |-> res.stdout[Len(res.stdout)]]

\* run_sha256: the last output line, or the fatal error
RunSha256(res) ==
    IF res.returncode # 0
    THEN [ok |-> FALSE, err |-> "hash_failed", h |-> None]
    ELSE IF res.stdout = <<>>
         THEN [ok |-> FALSE, err |-> "hash_no_output", h |-> None]
         ELSE [ok |-> TRUE, err |-> "", h |-> res.stdout[Len(res.stdout)]]

\* assert_meta_present: "" when the checks pass, else the fatal error
AssertMetaPresent(data, expected_run_id, expected_prompt_id) ==
    IF ~IsDict(data)
    THEN "root_not_object"
    ELSE LET meta == Get(data, "meta")
         IN  IF ~IsDict(meta)
             THEN "meta_missing"
             ELSE IF \E i \in 1..Len(RequiredMeta) : ~Has(meta, RequiredMeta[i])
                  THEN "meta_missing_keys"
                  ELSE IF Get(meta, "run_id") # expected_run_id
                       THEN "run_id_mismatch"
                       ELSE IF Get(meta, "prompt_id") # expected_prompt_id
                            THEN "prompt_id_mismatch"
                            ELSE ""

\* meta.update({...}), lines 77-83
MetaUpdate(meta, run_id, prompt_id, timestamp) ==
    SetKey(SetKey(SetKey(SetKey(SetKey(meta, "run_id", run_id), "prompt_id", prompt_id),
                         "timestamp", timestamp), "model", ModelName), "output_hash", Pending)

\* The (wrong) variant that leaves the placeholder in place.
SetOutputHashNot(data, h) == data

\* data["meta"]["output_hash"] = h
SetOutputHash(data, h) ==
    SetKey(data, "meta", SetKey(Get(data, "meta"), "output_hash", h))

\* The (wrong) variant that hashes the file before the stamped text is in it.
FirstWriteSkipped(disk, data) == disk

\* f.write_text(yaml.safe_dump(data, ...)), line 87
FirstWrite(disk, data) == [exists |-> TRUE, root |-> data]

\* Path(args.file).stem
Stem(path) == Str(path.stem)

\* args.prompt_id.strip()
PromptId(arg) == LET core == Strip(arg) IN Str(IF core = <<>> THEN "" ELSE core[1])

\* The documents the file may hold before the first run.
OldStamp ==
    Dict(<<KV("run_id", Str("FR-009")), KV("prompt_id", Str("PR-000")),
           KV("timestamp", Str("2025-01-01 00:00")), KV("model", Str("gpt-4")),
           KV("output_hash", Str("0ldd1gest"))>>)
StampMetaEntries ==
    { <<>>,
      <<KV("meta", None)>>,
      <<KV("meta", Str("none yet"))>>,
      <<KV("meta", Dict(<<>>))>>,
      <<KV("meta", Dict(<<KV("note", Str("keep")), KV("prompt_id", Str("PR-000"))>>))>>,
      <<KV("meta", OldStamp)>> }
StampIdEntries == {<<>>, <<KV("id", Str("FR-001"))>>}
StampRoots ==
    {Dict(i \o m) : i \in StampIdEntries, m \in StampMetaEntries}
    \cup {None, List(<<>>), List(<<Str("FR-001")>>)}
NoFile == [exists |-> FALSE, root |-> None]
StampPaths == {[stem |-> "FR-001", suffix |-> ".yaml"], [stem |-> "FR-002", suffix |-> ".yaml"]}
PromptArgs == {<<"PR-003">>, <<" ", "PR-004", "\n">>}
NoLast == [stamped |-> FALSE, meta |-> None, prompt_id |-> None]

IdleStamp ==
    /\ mDisk = NoFile
    /\ mScript = FALSE
    /\ mClock = 0
    /\ mPc = "off"
    /\ mArgs = [file |-> [stem |-> "", suffix |-> ""], prompt_id |-> <<>>]
    /\ mData = None
    /\ mRunId = None
    /\ mPromptId = None
    /\ mNow = None
    /\ mHashRes = NoHashRes
    /\ mAbort = ""
    /\ mFirst = None
    /\ mRuns = 0
    /\ mLast = NoLast

InitStamp ==
    /\ mDisk \in {NoFile} \cup {[exists |-> TRUE, root |-> r] : r \in StampRoots}
    /\ mScript \in BOOLEAN
    /\ mClock = 0
    /\ mPc = "idle"
    /\ mArgs \in [file : StampPaths, prompt_id : {<<>>}]
    /\ mData = None
    /\ mRunId = None
    /\ mPromptId = None
    /\ mNow = None
    /\ mHashRes = NoHashRes
    /\ mAbort = ""
    /\ mFirst = None
    /\ mRuns = 0
    /\ mLast = NoLast

\* A minute passes.
Tick ==
    /\ mPc # "off"
    /\ mClock < MaxClock
    /\ mClock' = mClock + 1
    /\ UNCHANGED <<mDisk, mScript, mPc, mArgs, mData, mRunId, mPromptId, mNow, mHashRes,
                   mAbort, mFirst, mRuns, mLast, extraVars, valVars, stripVars, segVars, canonVars, dashVars>>

\* main(), lines 52-87: a run on the file, up to and with the first write.
StampStart ==
    /\ mPc \in {"idle", "done", "aborted"}
    /\ mRuns < MaxRuns
    /\ \E p \in PromptArgs :
        LET loaded == IF Truthy(mDisk.root) THEN mDisk.root ELSE Dict(<<>>)
            run_id == Stem(mArgs.file)
            prompt_id == PromptId(p)
            meta0 == Get(loaded, "meta")
            meta == MetaUpdate(IF IsDict(meta0) THEN meta0 ELSE Dict(<<>>),
                               run_id, prompt_id, NowStr(mClock))
            data == SetKey(loaded, "meta", meta)
            written == FirstWrite(mDisk, data)
            Abort(why) ==
                /\ mPc' = "aborted"
                /\ mAbort' = why
                /\ UNCHANGED <<mDisk, mData, mRunId, mPromptId, mNow, mFirst>>
        IN  /\ mArgs' = [mArgs EXCEPT !.prompt_id = p]
            /\ IF ~mDisk.exists
               THEN Abort("file_not_found")
               ELSE IF ~mScript
                    THEN Abort("hash_script_not_found")
                    ELSE IF ~IsDict(loaded)
                         THEN Abort("root_not_mapping")
                         ELSE /\ mRunId' = run_id
                              /\ mPromptId' = prompt_id
                              /\ mNow' = NowStr(mClock)
                              /\ mData' = data
                              /\ mDisk' = written
                              /\ mFirst' = written.root
                              /\ mPc' = "hashing"
                              /\ mAbort' = ""
    /\ mRuns' = mRuns + 1
    /\ mHashRes' = NoHashRes
    /\ mLast' = IF mPc = "done"
                THEN [stamped |-> TRUE, meta |-> Get(mDisk.root, "meta"),
                      prompt_id |-> mPromptId]
                ELSE mLast
    /\ UNCHANGED <<mScript, mClock, extraVars, valVars, stripVars, segVars, canonVars, dashVars>>

\* main(), lines 90-94: hash the file just written, then the second write.
StampHash ==
    /\ mPc = "hashing"
    /\ \E res \in HashTool(mDisk.root) :
        LET r == RunSha256(res)
        IN  /\ mHashRes' = res
            /\ IF ~r.ok
               THEN /\ mPc' = "aborted"
                    /\ mAbort' = r.err
                    /\ UNCHANGED <<mData, mDisk>>
               ELSE /\ mData' = SetOutputHash(mData, r.h)
                    /\ mDisk' = [exists |-> TRUE, root |-> SetOutputHash(mData, r.h)]
                    /\ mPc' = "verify"
                    /\ UNCHANGED mAbort
    /\ UNCHANGED <<mScript, mClock, mArgs, mRunId, mPromptId, mNow, mFirst, mRuns, mLast,
                   extraVars, valVars, stripVars, segVars, canonVars, dashVars>>

\* main(), lines 97-99: reload the file and check the meta block.
StampVerify ==
    /\ mPc = "verify"
    /\ LET err == AssertMetaPresent(mDisk.root, mRunId, mPromptId)
       IN  IF err = ""
           THEN mPc' = "done" /\ UNCHANGED mAbort
           ELSE mPc' = "aborted" /\ mAbort' = err
    /\ UNCHANGED <<mDisk, mScript, mClock, mArgs, mData, mRunId, mPromptId, mNow, mHashRes,
                   mFirst, mRuns, mLast, extraVars, valVars, stripVars, segVars, canonVars, dashVars>>

(***************************************************************************)
(* Segmenter.  In a Markdown text "ID:" stands for those three characters, *)
(* "FR-001" and "FR-002" for requirement ids ([A-Z]{2}-\d{3}) and "x" for  *)
(* a run of other non-whitespace characters.                               *)
(***************************************************************************)
MaxLen == 6

MdChars == {"ID:", "FR-001", "FR-002", "x", " ", "\n"}
ReqIds == {"FR-001", "FR-002"}

\* ^ under re.MULTILINE
LineStart(md, p) == p = 1 \/ md[p - 1] = "\n"

\* $ under re.MULTILINE
LineEnd(md, e) == e = Len(md) + 1 \/ md[e] = "\n"

\* The first position from p on that holds no whitespace (greedy \s*).
RECURSIVE SkipSpace(_, _)
SkipSpace(md, p) == IF p <= Len(md) /\ IsSpace(md[p]) THEN SkipSpace(md, p + 1) ELSE p

\* \s*$ from position p: the last line end the whitespace from p on reaches, 0 if none.
RECURSIVE LastLineEnd(_, _, _)
LastLineEnd(md, p, e) ==
    IF e < p THEN 0
    ELSE IF LineEnd(md, e) THEN e ELSE LastLineEnd(md, p, e - 1)

\* ID:\s*([A-Z]{2}-\d{3})\s*$ with "ID:" at position k
TailAt(md, k) ==
    LET j == SkipSpace(md, k + 1)
    IN  IF j <= Len(md) /\ md[j] \in ReqIds
        THEN LET e == LastLineEnd(md, j + 1, SkipSpace(md, j + 1))
             IN  [found |-> e # 0, id |-> md[j], end |-> e]
        ELSE [found |-> FALSE, id |-> "", end |-> 0]

\* The end of the line that position p is in (where .* stops).
RECURSIVE EndOfLine(_, _)
EndOfLine(md, p) == IF p <= Len(md) /\ md[p] # "\n" THEN EndOfLine(md, p + 1) ELSE p

\* .*ID:... from line start p, .* giving back from position k down to p
RECURSIVE Backtrack(_, _, _)
Backtrack(md, p, k) ==
    IF k < p THEN [found |-> FALSE, start |-> p, id |-> "", end |-> 0]
    ELSE IF k <= Len(md) /\ md[k] = "ID:" /\ TailAt(md, k).found
         THEN [found |-> TRUE, start |-> p, id |-> TailAt(md, k).id, end |-> TailAt(md, k).end]
         ELSE Backtrack(md, p, k - 1)

\* pattern.match at position p
MatchAt(md, p) ==
    IF LineStart(md, p)
    THEN Backtrack(md, p, EndOfLine(md, p))
    ELSE [found |-> FALSE, start |-> p, id |-> "", end |-> 0]

\* list(pattern.finditer(md)) from position p on
RECURSIVE FindIter(_, _)
FindIter(md, p) ==
    IF p > Len(md) + 1 THEN <<>>
    ELSE IF MatchAt(md, p).found
         THEN <<MatchAt(md, p)>> \o FindIter(md, MatchAt(md, p).end)
         ELSE FindIter(md, p + 1)

\* The (wrong) variant that ends a block where its own anchor ends.
BlockEndOfAnchor(md, matches, idx) == matches[idx].end

\* matches[idx + 1].start() if idx + 1 < len(matches) else len(md)
BlockEnd(md, matches, idx) ==
    IF idx + 1 <= Len(matches) THEN matches[idx + 1].start ELSE Len(md) + 1

\* The (wrong) variant that keeps the whitespace around a block.
BlockTextRaw(md, start, end) == SubSeq(md, start, end - 1)

\* md[start:end].strip()
BlockText(md, start, end) == Strip(SubSeq(md, start, end - 1))

\* reqs[req_id] = text
PutReq(reqs, id, text) ==
    IF \E i \in 1..Len(reqs) : reqs[i].id = id
    THEN [i \in 1..Len(reqs) |-> IF reqs[i].id = id THEN [id |-> id, text |-> text] ELSE reqs[i]]
    ELSE Append(reqs, [id |-> id, text |-> text])

RECURSIVE FillReqs(_, _, _, _)
FillReqs(md, matches, idx, reqs) ==
    IF idx > Len(matches) THEN reqs
    ELSE FillReqs(md, matches, idx + 1,
                  PutReq(reqs, matches[idx].id,
                         BlockText(md, matches[idx].start, BlockEnd(md, matches, idx))))

\* parse_requirements_by_id(md)
ParseRequirementsById(md) ==
    LET matches == FindIter(md, 1)
    IN  IF matches = <<>>
        THEN [raised |-> TRUE, reqs |-> <<>>]
        ELSE [raised |-> FALSE, reqs |-> FillReqs(md, matches, 1, <<>>)]

IdleSeg ==
    /\ sgMd = <<>>
    /\ sgPc = "idle"
    /\ sgOut = [raised |-> FALSE, reqs |-> <<>>]

InitSeg ==
    /\ \E n \in 0..MaxLen : sgMd \in [1..n -> MdChars]
    /\ sgPc = "call"
    /\ sgOut = [raised |-> FALSE, reqs |-> <<>>]

RunParse ==
    /\ sgPc = "call"
    /\ sgOut' = ParseRequirementsById(sgMd)
    /\ sgPc' = "returned"
    /\ UNCHANGED <<sgMd, extraVars, valVars, stripVars, stampVars, canonVars, dashVars>>

(***************************************************************************)
(* Canonicalizer.  The text is kept as its lines, a line as its pieces;    *)
(* the pieces " " and "\n" are whitespace.                                 *)
(***************************************************************************)
MaxFields == 2

ScalarFields == <<"id", "type", "title", "role", "what", "why">>
ScalarLabels == <<"ID:", "Type:", "Title:", "Role:", "What:", "Why:">>
ListFields ==
    <<"acceptance_criteria", "exceptions", "logs", "dependencies", "permissions",
      "nfr", "evidence", "changes_from_current", "tbd">>
ListLabels ==
    <<"Acceptance Criteria:", "Exceptions:", "Logs:", "Dependencies:", "Permissions:",
      "NFR:", "Evidence:", "Changes From Current:", "TBD:">>

\* str(x) of a scalar, as the pieces of a line
PyStr(x) == IF x.a = "" THEN <<>> ELSE <<x.a>>

NoneLine == <<"-", " ", "(none)">>
InvalidLine(typename) == <<"-", " ", "(invalid type: ", typename, ")">>
BulletLine(x) == <<"-", " ">> \o PyStr(x)

\* The (wrong) variant that tests the type before the emptiness.
JoinListTypeFirst(req, key) ==
    LET v == GetOr(req, key, List(<<>>))
    IN  IF ~IsList(v)
        THEN <<InvalidLine(v.t)>>
        ELSE IF ~Truthy(v)
             THEN <<NoneLine>>
             ELSE [i \in 1..Len(v.kids) |-> BulletLine(v.kids[i])]

\* join_list(key): the lines of one list field
JoinList(req, key) ==
    LET v == GetOr(req, key, List(<<>>))
    IN  IF ~Truthy(v)
        THEN <<NoneLine>>
        ELSE IF ~IsList(v)
             THEN <<InvalidLine(v.t)>>
             ELSE [i \in 1..Len(v.kids) |-> BulletLine(v.kids[i])]

\* "\n\n".join(lines).strip(): the text starts with "ID:", so the strip only
\* takes whitespace off the end of the last line.
StripText(sections) ==
    LET n == Len(sections)
        last == sections[n].lines
    IN  [sections EXCEPT ![n].lines =
            [last EXCEPT ![Len(last)] = RStrip(last[Len(last)])]]

\* requirement_to_eval_text(req)
RequirementToEvalText(req) ==
    StripText(
        [i \in 1..Len(ScalarFields) |->
            [label |-> ScalarLabels[i],
             lines |-> <<<<" ">> \o PyStr(GetOr(req, ScalarFields[i], Str("")))>>]]
        \o [i \in 1..Len(ListFields) |->
            [label |-> ListLabels[i], lines |-> JoinList(req, ListFields[i])]])

\* Values a list field may hold in a record.
FieldValues ==
    { List(<<>>), List(<<Str("a")>>), List(<<Str("a"), IntV("2")>>),
      List(<<Str("b"), Str("")>>),
      None, Str(""), Str("free text"), IntV("0"), IntV("7"), BoolV("False"),
      Dict(<<>>), Dict(<<KV("k", Str("v"))>>) }

\* The records with the list fields at the positions in keys (increasing) set.
RECURSIVE FieldEntries(_)
FieldEntries(keys) ==
    IF keys = <<>>
    THEN {<<>>}
    ELSE {<<KV(ListFields[Head(keys)], v)>> \o rest :
             v \in FieldValues, rest \in FieldEntries(Tail(keys))}
KeyChoices ==
    {ks \in UNION {[1..n -> 1..Len(ListFields)] : n \in 0..MaxFields} :
        \A i \in 1..(Len(ks) - 1) : ks[i] < ks[i + 1]}

IdleCanon ==
    /\ cnReq = Dict(<<>>)
    /\ cnPc = "idle"
    /\ cnOut = <<>>

InitCanon ==
    /\ \E ks \in KeyChoices :
          \E es \in FieldEntries(ks) :
            cnReq = Dict(<<KV("id", Str("FR-001"))>> \o es)
    /\ cnPc = "call"
    /\ cnOut = <<>>

RunCanon ==
    /\ cnPc = "call"
    /\ cnOut' = RequirementToEvalText(cnReq)
    /\ cnPc' = "returned"
    /\ UNCHANGED <<cnReq, extraVars, valVars, stripVars, stampVars, segVars, dashVars>>

(***************************************************************************)
(* ResultNormalizer.  A number is kept as hundredths: float("0.7") is 70.   *)
(* An uncaught exception ends the call without a result.                   *)
(***************************************************************************)
MaxMetrics == 2
MaxRecords == 3

SuccessThreshold == 70
SummaryLimit == 8

\* a or b
Or(a, b) == IF Truthy(a) THEN a ELSE b

\* str(v) of a scalar
ToStr(v) == Str(v.a)

\* _safe_get(d, k, default=dflt)
SafeGet(d, k, dflt) == IF IsDict(d) /\ Has(d, k) THEN Get(d, k) ELSE dflt

\* The number a numeral denotes, in hundredths; -1 for a text that is no numeral.
Hundredths(text) ==
    CASE text \in {"0", "0.0"} -> 0
      [] text = "0.69" -> 69
      [] text \in {"0.7", "0.70"} -> 70
      [] text = "0.71" -> 71
      [] text \in {"1", "1.0"} -> 100
      [] OTHER -> -1

\* float(x) returns: a number, a bool, or a str that holds a numeral
Floatable(x) ==
    CASE x.t \in {"float", "int"} -> TRUE
      [] x.t = "bool" -> TRUE
      [] x.t = "str" -> Hundredths(x.a) >= 0
      [] OTHER -> FALSE

\* float(x)
Float(x) ==
    CASE x.t = "bool" -> IF x.a = "True" THEN 100 ELSE 0
      [] OTHER -> Hundredths(x.a)

\* for e in v: a list yields its items, a dict its keys, a str its characters
\* (the strings iterated here are one character long); nothing else iterates.
Iterable(v) == v.t \in {"list", "dict", "str"}
Iter(v) ==
    CASE v.t = "list" -> v.kids
      [] v.t = "dict" -> [i \in 1..Len(v.kids) |-> Str(v.kids[i].a)]
      [] OTHER -> <<Str(v.a)>>

\* f"TC-{idx:03d}"
TcName(idx) ==
    IF idx < 10 THEN "TC-00" \o ToString(idx)
    ELSE IF idx < 100 THEN "TC-0" \o ToString(idx)
    ELSE "TC-" \o ToString(idx)

\* Lines 49-60: one entry of metrics_out; raised when a float() call fails.
NormMetric(m) ==
    LET m_name == Or(Get(m, "name"), Or(Get(m, "metric"), Str("Metric")))
        s0 == Get(m, "score")
        score == IF s0 = None THEN GetOr(m, "value", FloatV("0.0")) ELSE s0
        weight == GetOr(m, "weight", FloatV("1.0"))
        reason == Or(Get(m, "reason"), Or(Get(m, "explanation"), Str("")))
    IN  [raised |-> (score # None /\ ~Floatable(score)) \/ ~Floatable(weight),
         name |-> m_name,
         score |-> IF score # None THEN Float(score) ELSE 0,
         weight |-> Float(weight),
         reason |-> ToStr(reason)]

\* The (wrong) variant that also fails a score equal to the threshold.
MetricFailsAtThreshold(mm) == mm.score <= SuccessThreshold

\* Line 62: mm["score"] < SUCCESS_THRESHOLD
MetricFails(mm) == mm.score < SuccessThreshold

\* Lines 35-75: the body of the loop for the record tr at position idx.
NormRecord(tr, idx) ==
    LET tc == IF IsDict(tr) THEN SafeGet(tr, "test_case", Dict(<<>>)) ELSE Dict(<<>>)
        inp == SafeGet(tc, "input", SafeGet(tr, "input", Str("")))
        actual == SafeGet(tc, "actual_output", SafeGet(tr, "actual_output", Str("")))
        meta ==
            Or(SafeGet(tc, "additional_metadata",
                       SafeGet(tr, "additional_metadata", Dict(<<>>))),
               Dict(<<>>))
        req_id ==
            IF IsDict(meta)
            THEN Or(Get(meta, "requirement_id"), Or(Get(meta, "id"), Str(TcName(idx))))
            ELSE None
        metrics_in ==
            Or(SafeGet(tr, "metrics_data", SafeGet(tr, "metrics", List(<<>>))),
               List(<<>>))
        dicts == IF Iterable(metrics_in) THEN SelectSeq(Iter(metrics_in), IsDict) ELSE <<>>
        normed == [i \in 1..Len(dicts) |-> NormMetric(dicts[i])]
        metrics_out ==
            [i \in 1..Len(dicts) |->
                [name |-> normed[i].name, score |-> normed[i].score,
                 weight |-> normed[i].weight, reason |-> normed[i].reason]]
        fails == SelectSeq(metrics_out, MetricFails)
    IN  [raised |-> \/ ~IsDict(meta)
                    \/ ~Iterable(metrics_in)
                    \/ \E i \in 1..Len(dicts) : normed[i].raised,
         name |-> ToStr(req_id),
         input |-> inp,
         actualOutput |-> actual,
         summary |->
            [verdict |-> IF Len(fails) # 0 THEN "FAIL" ELSE "PASS",
             notes |-> Take([i \in 1..Len(fails) |->
                                [name |-> fails[i].name, score |-> fails[i].score]],
                            SummaryLimit),
             proposals |-> <<>>],
         metrics |-> metrics_out]

\* Lines 25-31: the records the loop runs over.
Candidates(payload) ==
    LET found ==
            IF IsList(payload) THEN payload
            ELSE IF IsDict(payload)
                 THEN Or(Get(payload, "test_results"),
                         Or(Get(payload, "results"), Get(payload, "testCases")))
                 ELSE None
    IN  IF found = None THEN List(<<payload>>) ELSE found

\* to_dashboard_json(deepeval_results)
ToDashboardJson(payload) ==
    LET candidates == Candidates(payload)
        trs == IF Iterable(candidates) THEN Iter(candidates) ELSE <<>>
        recs == [i \in 1..Len(trs) |-> NormRecord(trs[i], i)]
        raised == ~Iterable(candidates) \/ \E i \in 1..Len(trs) : recs[i].raised
    IN  [raised |-> raised,
         testCases |->
            IF raised THEN <<>>
            ELSE [i \in 1..Len(trs) |->
                    [name |-> recs[i].name, input |-> recs[i].input,
                     actualOutput |-> recs[i].actualOutput,
                     summary |-> recs[i].summary, metrics |-> recs[i].metrics]]]

\* Metric outcomes of an evaluation result.
ScoreEntries ==
    { <<>>, <<KV("score", None), KV("value", FloatV("0.71"))>>,
      <<KV("score", FloatV("0.69"))>>, <<KV("score", FloatV("0.7"))>>,
      <<KV("score", FloatV("0.71"))>>, <<KV("score", Str("0.7"))>>,
      <<KV("score", Str("high"))>> }
FlagEntries ==
    { <<KV("threshold", FloatV("0.5")), KV("success", BoolV("True"))>>,
      <<KV("threshold", FloatV("0.9")), KV("success", BoolV("False"))>> }
MetricPool ==
    {Dict(<<KV("name", Str("Faithfulness"))>> \o s \o f) :
        s \in ScoreEntries, f \in FlagEntries}
    \cup { Str("x"),
           Dict(<<KV("metric", Str("Relevancy")), KV("score", IntV("1")),
                  KV("weight", None)>>),
           Dict(<<KV("score", FloatV("0.0")), KV("explanation", Str("why"))>>) }

\* A record holding the metric list ms, in the two layouts the probes cover.
RecordsWith(ms) ==
    { Dict(<<KV("input", Str("q")), KV("actual_output", Str("a")),
             KV("metrics_data", List(ms))>>),
      Dict(<<KV("test_case",
                Dict(<<KV("input", Str("q")),
                       KV("additional_metadata",
                          Dict(<<KV("requirement_id", Str("FR-001"))>>))>>)),
             KV("metrics", List(ms))>>) }

\* Records of a result sequence.
Passing == Dict(<<KV("name", Str("Faithfulness")), KV("score", FloatV("0.71"))>>)
Failing == Dict(<<KV("name", Str("Faithfulness")), KV("score", FloatV("0.69"))>>)
SeqRecords ==
    { Dict(<<KV("input", Str("q1")), KV("metrics_data", List(<<Passing>>))>>),
      Dict(<<KV("input", Str("q2")),
             KV("additional_metadata", Dict(<<KV("id", Str("FR-002"))>>)),
             KV("metrics_data", List(<<Failing>>))>>),
      Dict(<<KV("test_case", Dict(<<KV("input", Str("q3"))>>)),
             KV("metrics", List(<<>>))>>),
      Str("x"),
      Dict(<<KV("input", Str("q5")), KV("additional_metadata", Str("x"))>>) }

ConventionalKeys == <<"test_results", "results", "testCases">>

\* The payload shapes that carry the sequence recs.
PayloadsOf(recs) ==
    { List(recs) }
    \cup {Dict(<<KV(ConventionalKeys[k], List(recs))>>) : k \in 1..Len(ConventionalKeys)}
    \cup { Dict(<<KV("summary", Dict(<<KV("total", IntV("1"))>>)),
                  KV("results", List(recs))>>),
           Dict(<<KV("test_results", List(<<>>)), KV("testCases", List(recs))>>) }

\* Payloads whose conventional key holds no sequence.
OddPayloads ==
    { Dict(<<KV("results", None), KV("input", Str("q"))>>),
      Dict(<<KV("results", IntV("5"))>>),
      Dict(<<KV("input", Str("q")), KV("metrics", IntV("5"))>>),
      Str("x"), None }

IdleDash ==
    /\ dbIn = None
    /\ dbPc = "idle"
    /\ dbOut = [raised |-> FALSE, testCases |-> <<>>]

InitDash ==
    /\ \/ \E n \in 0..MaxMetrics :
            \E ms \in [1..n -> MetricPool] :
              \E r \in RecordsWith(ms) : dbIn \in {r, List(<<r>>)}
       \/ \E n \in 0..MaxRecords :
            \E recs \in [1..n -> SeqRecords] : dbIn \in PayloadsOf(recs)
       \/ dbIn \in OddPayloads
    /\ dbPc = "call"
    /\ dbOut = [raised |-> FALSE, testCases |-> <<>>]

RunDashboard ==
    /\ dbPc = "call"
    /\ dbOut' = ToDashboardJson(dbIn)
    /\ dbPc' = IF ToDashboardJson(dbIn).raised THEN "raised" ELSE "returned"
    /\ UNCHANGED <<dbIn, extraVars, valVars, stripVars, stampVars, segVars, canonVars>>

(***************************************************************************)
(* Specifications.                                                         *)
(***************************************************************************)
Init == InitValidator /\ IdleExtra /\ IdleStrip /\ IdleStamp /\ IdleSeg /\ IdleCanon /\ IdleDash
Next == MainSelect \/ ValidateFile \/ ReportFile \/ MainExit
Spec == Init /\ [][Next]_vars

InitX == InitExtra /\ IdleValidator /\ IdleStrip /\ IdleStamp /\ IdleSeg /\ IdleCanon /\ IdleDash
NextX == RunExtraChecks
SpecExtra == InitX /\ [][NextX]_vars

InitS == InitStrip /\ IdleValidator /\ IdleExtra /\ IdleStamp /\ IdleSeg /\ IdleCanon /\ IdleDash
NextS == RunStrip
SpecStrip == InitS /\ [][NextS]_vars

InitM == InitStamp /\ IdleValidator /\ IdleExtra /\ IdleStrip /\ IdleSeg /\ IdleCanon /\ IdleDash
NextM == StampStart \/ StampHash \/ StampVerify \/ Tick
SpecStamp == InitM /\ [][NextM]_vars

InitG == InitSeg /\ IdleValidator /\ IdleExtra /\ IdleStrip /\ IdleStamp /\ IdleCanon /\ IdleDash
NextG == RunParse
SpecSeg == InitG /\ [][NextG]_vars

InitC == InitCanon /\ IdleValidator /\ IdleExtra /\ IdleStrip /\ IdleStamp /\ IdleSeg /\ IdleDash
NextC == RunCanon
SpecCanon == InitC /\ [][NextC]_vars

InitD ==
    InitDash /\ IdleValidator /\ IdleExtra /\ IdleStrip /\ IdleStamp /\ IdleSeg /\ IdleCanon
NextD == RunDashboard
SpecDash == InitD /\ [][NextD]_vars

(***************************************************************************)
(* Claims.                                                                 *)
(***************************************************************************)
Targeted == {i \in NameIds : vDir[i].present /\ ReqFileRe(NamePool[i])}
FileClean(i) ==
    /\ vDir[i].parses
    /\ vDir[i].schemaErrors = 0
    /\ ExtraChecks(vDir[i].data) = <<>>
AllParse == \A i \in Targeted : vDir[i].parses

\* C1: when the validator run has ended, its exit code is 0 if and only if
\* every targeted file has no schema error and no business-rule error, and 1
\* otherwise; and as long as every targeted file is readable YAML, every
\* targeted file has been checked and reported, whatever the earlier files
\* held.
C1_ExitCode ==
    vPc = "exited" =>
        /\ vExit = 0 <=> \A i \in Targeted : FileClean(i)
        /\ vExit \in {0, 1}
        /\ AllParse =>
            /\ vChecked = Targeted
            /\ \A i \in Targeted :
                \E k \in 1..Len(vOut) :
                    /\ vOut[k].file = i
                    /\ vOut[k].kind = (IF FileClean(i) THEN "valid" ELSE "invalid")

\* A run over three files whose first is invalid and whose last is valid.
C1_Witness ==
    /\ vPc = "exited"
    /\ Cardinality(Targeted) = 3
    /\ AllParse
    /\ ~FileClean(1)
    /\ vDir[1].schemaErrors = 0
    /\ FileClean(3)
    /\ vExit = 1
    /\ vChecked = Targeted

(* --- sanitization ------------------------------------------------------ *)
RECURSIVE SanitizeDeep(_)
\* The schema with, in every allOf array at every depth, the members that nest
\* a $data const dropped, and an allOf array left without members removed.
SanitizeDeep(v) ==
    IF IsDict(v)
    THEN LET Kept(item) == ~ContainsDataConst(item)
             Emptied(e) == e.a = "allOf" /\ IsList(e.kids[1])
                           /\ SelectSeq(e.kids[1].kids, Kept) = <<>>
             Stays(e) == ~Emptied(e)
             left == SelectSeq(v.kids, Stays)
         IN  Dict([i \in 1..Len(left) |->
                      IF left[i].a = "allOf" /\ IsList(left[i].kids[1])
                      THEN KV("allOf", List(SelectSeq(left[i].kids[1].kids, Kept)))
                      ELSE KV(left[i].a, SanitizeDeep(left[i].kids[1]))])
    ELSE IF IsList(v)
         THEN List([i \in 1..Len(v.kids) |-> SanitizeDeep(v.kids[i])])
         ELSE v

\* C8: the sanitized schema is the input schema with, in every allOf array at
\* any nesting depth, exactly the members nesting a $data const dropped (the
\* others kept in order), and an allOf array whose members are all dropped
\* removed with its key.
C8_AllDepths ==
    stPc = "returned" /\ IsDict(stHeap["schema"]) =>
        Resolve(stHeap, stRet) = SanitizeDeep(Resolve(stHeap, "schema"))

\* C9: the call leaves every object the caller holds as it was: the only
\* objects that differ after the call are the ones the call allocated.
C9_NoMutation ==
    [][stPc = "call" =>
         \A a \in Addrs : stHeap[a] # Free => stHeap'[a] = stHeap[a]]_vars

\* A call that dropped a member of the allOf array and returned a copy.
C9_Witness ==
    /\ stPc = "returned"
    /\ stRet = "copy"
    /\ IsList(stHeap["allOf"])
    /\ Len(stHeap["allOf"].kids) = 2
    /\ stHeap["filtered"] # Free
    /\ Len(stHeap["filtered"].kids) = 1
    /\ Get(stHeap["copy"], "allOf") = Ref("filtered")
    /\ Get(stHeap["schema"], "allOf") = Ref("allOf")

(* --- business rule ----------------------------------------------------- *)
\* The value of key k, when the mapping has the key with a value other than null.
Present(d, k) == IsDict(d) /\ Has(d, k) /\ Get(d, k) # None
RunIdPresent(d) == Has(d, "meta") /\ Present(Get(d, "meta"), "run_id")

\* C10: for a mapping record, the business-rule pass returns exactly one error,
\* naming the two values, when id and meta.run_id are both present and differ,
\* and no error when they are equal or one of them is absent.
C10_ExtraChecks ==
    exPc = "returned" /\ IsDict(exData) =>
        IF Present(exData, "id") /\ RunIdPresent(exData)
           /\ Get(exData, "id") # Get(Get(exData, "meta"), "run_id")
        THEN /\ Len(exErrors) = 1
             /\ exErrors[1].msg = "run_id_must_equal_id"
             /\ exErrors[1].rid = Get(exData, "id")
             /\ exErrors[1].mid = Get(Get(exData, "meta"), "run_id")
        ELSE exErrors = <<>>

\* The record with id FR-001 and meta.run_id FR-002 has been checked.
C10_Witness ==
    /\ exPc = "returned"
    /\ Present(exData, "id")
    /\ RunIdPresent(exData)
    /\ Get(exData, "id") = Str("FR-001")
    /\ Get(Get(exData, "meta"), "run_id") = Str("FR-002")
    /\ Len(exErrors) = 1

(* --- stamping ---------------------------------------------------------- *)
DiskMeta == Get(mDisk.root, "meta")
HasFiveKeys(meta) ==
    IsDict(meta) /\ \A i \in 1..Len(RequiredMeta) : Has(meta, RequiredMeta[i])

\* C2: after a stamp run that completed, whatever the file held before, the
\* file's meta block has the five keys, run_id is the file name's stem,
\* prompt_id is the prompt identifier given on the command line (without the
\* blanks around it) and output_hash is not the placeholder.
C2_Stamped ==
    mPc = "done" =>
        /\ IsDict(mDisk.root)
        /\ HasFiveKeys(DiskMeta)
        /\ Get(DiskMeta, "run_id") = Str(mArgs.file.stem)
        /\ Get(DiskMeta, "prompt_id") = Str(Strip(mArgs.prompt_id)[1])
        /\ Get(DiskMeta, "output_hash") # Pending

\* A first run completed on a file whose meta block held other entries only.
C2_Witness ==
    /\ mPc = "done"
    /\ mRuns = 1
    /\ Has(DiskMeta, "note")
    /\ Get(DiskMeta, "prompt_id") = Str("PR-004")
    /\ mArgs.prompt_id # <<"PR-004">>

HashFailed == mHashRes # NoHashRes /\ (mHashRes.returncode # 0 \/ mHashRes.stdout = <<>>)

\* C3: when the hashing script exits with a non-zero status or prints nothing,
\* the run is aborted without a second write: the file holds what the first
\* write put there, the five meta keys with output_hash the placeholder.
C3_HashFailure ==
    HashFailed =>
        /\ mPc = "aborted"
        /\ mAbort \in {"hash_failed", "hash_no_output"}
        /\ mDisk.root = mFirst
        /\ HasFiveKeys(DiskMeta)
        /\ Get(DiskMeta, "output_hash") = Pending
        /\ Get(DiskMeta, "run_id") = mRunId
        /\ Get(DiskMeta, "prompt_id") = mPromptId
        /\ Get(DiskMeta, "timestamp") = mNow
        /\ Get(DiskMeta, "model") = ModelName

\* The script failed with output on a file that had been stamped before.
C3_Witness ==
    /\ HashFailed
    /\ mHashRes.returncode = 1
    /\ mHashRes.stdout # <<>>
    /\ mLast.stamped
    /\ mPc = "aborted"

\* C4: when a completed stamp follows an earlier completed stamp of the same
\* file made with another prompt id, the file's meta block holds the second
\* run's five values: its prompt id, its timestamp, and as output_hash the
\* digest of the file as the second run's first write left it; the first
\* stamp's prompt id and digest are gone.
C4_Restamp ==
    mPc = "done" /\ mLast.stamped /\ mLast.prompt_id # mPromptId =>
        /\ Get(DiskMeta, "prompt_id") = Str(Strip(mArgs.prompt_id)[1])
        /\ Get(DiskMeta, "prompt_id") # Get(mLast.meta, "prompt_id")
        /\ Get(DiskMeta, "run_id") = Str(mArgs.file.stem)
        /\ Get(DiskMeta, "timestamp") = mNow
        /\ Get(DiskMeta, "model") = ModelName
        /\ Get(DiskMeta, "output_hash") = Digest(mFirst)
        /\ Get(DiskMeta, "output_hash") # Get(mLast.meta, "output_hash")
        /\ Get(Get(mFirst, "meta"), "prompt_id") = mPromptId
        /\ Get(Get(mFirst, "meta"), "output_hash") = Pending
        /\ mDisk.root = SetOutputHash(mFirst, Digest(mFirst))

\* Two completed stamps of one file, PR-003 then PR-004, a minute apart.
C4_Witness ==
    /\ mPc = "done"
    /\ mLast.stamped
    /\ mLast.prompt_id = Str("PR-003")
    /\ mPromptId = Str("PR-004")
    /\ Get(mLast.meta, "timestamp") # mNow

(* --- segmentation ------------------------------------------------------ *)
\* Position p starts a line that anchors an id: after any characters of the
\* line comes "ID:", then whitespace, the id, and whitespace up to a line end.
AnchorIdAt(md, p, id) ==
    /\ p \in 1..Len(md)
    /\ LineStart(md, p)
    /\ \E k \in p..Len(md), j \in p..Len(md) :
        /\ \A q \in p..(k - 1) : md[q] # "\n"
        /\ md[k] = "ID:"
        /\ k < j
        /\ \A q \in (k + 1)..(j - 1) : IsSpace(md[q])
        /\ md[j] = id
        /\ \E e \in (j + 1)..(Len(md) + 1) :
            /\ \A q \in (j + 1)..(e - 1) : IsSpace(md[q])
            /\ LineEnd(md, e)
AnchorStarts(md) == {p \in 1..Len(md) : \E id \in ReqIds : AnchorIdAt(md, p, id)}
\* No two of the anchors (starting at the positions in starts) carry one id.
DistinctAnchors(md, starts) ==
    \A p \in starts, q \in starts, id \in ReqIds :
        AnchorIdAt(md, p, id) /\ AnchorIdAt(md, q, id) => p = q
\* The start of the first anchor after position p, or the end of the text.
NextAnchor(md, starts, p) ==
    IF \E q \in starts : q > p
    THEN CHOOSE q \in starts : q > p /\ \A r \in starts : r > p => q <= r
    ELSE Len(md) + 1
\* The number of anchors that start at or before position p.
Rank(starts, p) == Cardinality({q \in starts : q <= p})

\* C5: for a text whose anchors carry pairwise distinct ids, the result has
\* one entry per anchor, in the order of the anchors, keyed by the anchor's id
\* and holding the text from the start of the anchor's line to the start of
\* the next anchor's line (or the end of the text) without the whitespace
\* around it; a text without anchors raises the error.
C5_Segments ==
    sgPc = "returned" =>
        LET starts == AnchorStarts(sgMd)
        IN  DistinctAnchors(sgMd, starts) =>
                /\ sgOut.raised <=> starts = {}
                /\ Len(sgOut.reqs) = Cardinality(starts)
                /\ \A p \in starts :
                    LET entry == sgOut.reqs[Rank(starts, p)]
                        span == SubSeq(sgMd, p, NextAnchor(sgMd, starts, p) - 1)
                    IN  /\ AnchorIdAt(sgMd, p, entry.id)
                        /\ entry.text = Strip(span)
                        /\ entry.text # <<>>
                        /\ ~IsSpace(entry.text[1])
                        /\ ~IsSpace(entry.text[Len(entry.text)])

\* Two anchors with different ids, a blank between them trimmed off the first block.
C5_Witness ==
    /\ sgPc = "returned"
    /\ Len(sgOut.reqs) = 2
    /\ sgOut.reqs[1].id = "FR-002"
    /\ sgOut.reqs[2].id = "FR-001"
    /\ Len(sgOut.reqs[1].text) < NextAnchor(sgMd, AnchorStarts(sgMd), 1) - 1

\* A text without anchors raised the error.
C5_WitnessError ==
    /\ sgPc = "returned"
    /\ sgOut.raised
    /\ \E i \in 1..Len(sgMd) : sgMd[i] = "ID:"

NonSpace(s) == LET Keep(c) == ~IsSpace(c) IN SelectSeq(s, Keep)
RECURSIVE ConcatTexts(_, _)
ConcatTexts(reqs, i) ==
    IF i > Len(reqs) THEN <<>> ELSE reqs[i].text \o ConcatTexts(reqs, i + 1)
\* C6 as stated: the blocks, concatenated in order, hold the non-whitespace
\* content of the whole text.
C6_WholeText ==
    sgPc = "returned" /\ ~sgOut.raised =>
        LET starts == AnchorStarts(sgMd)
        IN  DistinctAnchors(sgMd, starts) =>
                NonSpace(ConcatTexts(sgOut.reqs, 1)) = NonSpace(sgMd)

\* C6, amended: the blocks, concatenated in order, hold the non-whitespace
\* content of the text from the first anchor line on; what stands before the
\* first anchor line is in no block.
C6_FromFirstAnchor ==
    sgPc = "returned" /\ ~sgOut.raised =>
        LET starts == AnchorStarts(sgMd)
        IN  DistinctAnchors(sgMd, starts) =>
                NonSpace(ConcatTexts(sgOut.reqs, 1))
                    = NonSpace(SubSeq(sgMd, NextAnchor(sgMd, starts, 0), Len(sgMd)))

\* A text with content before its first anchor and after it, segmented.
C6_Witness ==
    /\ sgPc = "returned"
    /\ ~sgOut.raised
    /\ Len(sgMd) >= 3
    /\ sgMd[1] = "x"
    /\ sgMd[2] = "\n"
    /\ NextAnchor(sgMd, AnchorStarts(sgMd), 0) = 3
    /\ sgMd[Len(sgMd)] = "x"

(* --- canonicalization -------------------------------------------------- *)
\* The lines of list field i in the text, and the lines that bullets of the
\* elements of v make there (the text's last line ends without whitespace).
SectionLines(i) == cnOut[Len(ScalarFields) + i].lines
Bullets(i, v) ==
    [k \in 1..Len(v.kids) |->
        IF i = Len(ListFields) /\ k = Len(v.kids)
        THEN RStrip(BulletLine(v.kids[k]))
        ELSE BulletLine(v.kids[k])]
Produced == cnPc = "returned" /\ Len(cnOut) = Len(ScalarFields) + Len(ListFields)

\* C7 as stated: a missing field or an empty list renders the "(none)" line,
\* a non-empty list one bullet per element in order, and a field present with
\* a value of any other type the type-error line.
C7_AnyNonList ==
    cnPc = "returned" =>
        /\ Produced
        /\ \A i \in 1..Len(ListFields) :
            LET v == GetOr(cnReq, ListFields[i], List(<<>>))
            IN  SectionLines(i) =
                    IF ~Has(cnReq, ListFields[i]) \/ v = List(<<>>)
                    THEN <<NoneLine>>
                    ELSE IF IsList(v) THEN Bullets(i, v) ELSE <<InvalidLine(v.t)>>

\* Python's falsy values that are no list: null, "", 0, False, {}.
EmptyValue(v) ==
    \/ v = None
    \/ v.t = "str" /\ v.a = ""
    \/ v.t = "int" /\ v.a = "0"
    \/ v.t = "bool" /\ v.a = "False"
    \/ v.t = "dict" /\ v.kids = <<>>

\* C7, amended: a missing field, an empty list or another empty value (null,
\* "", 0, False, {}) renders the "(none)" line, a non-empty list one bullet per
\* element in order, and a field present with a non-empty value of another
\* type the type-error line naming the type; the text is produced for every
\* record.
C7_NonEmptyNonList ==
    cnPc = "returned" =>
        /\ Produced
        /\ \A i \in 1..Len(ListFields) :
            LET v == GetOr(cnReq, ListFields[i], List(<<>>))
            IN  SectionLines(i) =
                    IF ~Has(cnReq, ListFields[i]) \/ v = List(<<>>) \/ EmptyValue(v)
                    THEN <<NoneLine>>
                    ELSE IF IsList(v) THEN Bullets(i, v) ELSE <<InvalidLine(v.t)>>

\* A record with exceptions a string and logs a two-element list, rendered.
C7_Witness ==
    /\ cnPc = "returned"
    /\ Get(cnReq, "exceptions") = Str("free text")
    /\ SectionLines(2) = <<InvalidLine("str")>>
    /\ Len(Get(cnReq, "logs").kids) = 2
    /\ Len(SectionLines(3)) = 2
    /\ SectionLines(1) = <<NoneLine>>

(* --- result normalization ---------------------------------------------- *)

\* A payload that is one record with a single metric scoring exactly 0.70,
\* which the evaluation itself marked unsuccessful against its threshold 0.9.
BoundaryRecord ==
    Dict(<<KV("input", Str("q")), KV("actual_output", Str("a")),
           KV("metrics_data",
              List(<<Dict(<<KV("name", Str("Faithfulness")),
                            KV("score", FloatV("0.7")),
                            KV("threshold", FloatV("0.9")),
                            KV("success", BoolV("False"))>>)>>))>>)

\* C11: in every record of the output the failing metrics, those the summary
\* lists, are exactly the normalized metrics whose score is strictly below
\* 0.70 (a score of 0.70 passes, whatever threshold or success flag the
\* metric carried), and the verdict is FAIL if and only if there is such a
\* metric, PASS otherwise, also for a record without metrics.
C11_Verdict ==
    dbPc = "returned" =>
        \A k \in 1..Len(dbOut.testCases) :
            LET r == dbOut.testCases[k]
                below == SelectSeq(r.metrics, LAMBDA mm : mm.score < 70)
            IN  /\ r.summary.verdict = "FAIL" <=> below # <<>>
                /\ r.summary.verdict = "PASS" <=> below = <<>>
                /\ Len(r.summary.notes) = (IF Len(below) < 8 THEN Len(below) ELSE 8)
                /\ \A j \in 1..Len(r.summary.notes) :
                      /\ r.summary.notes[j].name = below[j].name
                      /\ r.summary.notes[j].score = below[j].score

C11_Witness ==
    /\ dbPc = "returned"
    /\ dbIn = BoundaryRecord
    /\ Len(dbOut.testCases) = 1
    /\ dbOut.testCases[1].metrics[1].score = 70
    /\ dbOut.testCases[1].summary.verdict = "PASS"

\* The call produced the normalized records of recs, one per record, in order.
OnePerRecord(recs) ==
    (\A i \in 1..Len(recs) : ~NormRecord(recs[i], i).raised) =>
        /\ dbPc = "returned"
        /\ Len(dbOut.testCases) = Len(recs)
        /\ \A i \in 1..Len(recs) :
              LET n == NormRecord(recs[i], i)
                  r == dbOut.testCases[i]
              IN  /\ r.name = n.name
                  /\ r.input = n.input
                  /\ r.actualOutput = n.actualOutput
                  /\ r.summary = n.summary
                  /\ r.metrics = n.metrics

\* The conventional keys the payload has.
KeysHeld(payload) ==
    {k \in 1..Len(ConventionalKeys) : Has(payload, ConventionalKeys[k])}

\* C12: the output holds exactly one normalized record per record of the
\* payload's sequence, in the same order, when the payload is a sequence or a
\* mapping holding a sequence under one of test_results, results, testCases,
\* for sequences of every length; a bare mapping with none of those keys
\* becomes a one-element list.
C12_OnePerRecord ==
    dbPc \in {"returned", "raised"} =>
        /\ IsList(dbIn) => OnePerRecord(dbIn.kids)
        /\ IsDict(dbIn) =>
              \A k \in 1..Len(ConventionalKeys) :
                  (KeysHeld(dbIn) = {k} /\ IsList(Get(dbIn, ConventionalKeys[k])))
                      => OnePerRecord(Get(dbIn, ConventionalKeys[k]).kids)
        /\ (IsDict(dbIn) /\ KeysHeld(dbIn) = {}) => OnePerRecord(<<dbIn>>)

(* --- report order ------------------------------------------------------ *)

\* C13: no report line of a file (its valid or invalid marker, or an error
\* entry) is printed before the schema and business-rule errors of every
\* targeted file have been collected.
C13_CollectBeforeReport ==
    (\E k \in 1..Len(vOut) : vOut[k].kind \in {"valid", "invalid", "error"}) =>
        \A i \in 1..Len(vTargets) : vTargets[i] \in vChecked

(* --- stamped documents and the business rule --------------------------- *)

\* C14: every document a stamp run has written, by its first write and by
\* its second, has id equal to meta.run_id when both are present, and so
\* passes the business-rule pass of the validator.
C14_StampKeepsBusinessRule ==
    mPc \in {"hashing", "verify", "done"} =>
        /\ (Present(mDisk.root, "id") /\ RunIdPresent(mDisk.root)) =>
              Get(mDisk.root, "id") = Get(DiskMeta, "run_id")
        /\ ExtraChecks(mDisk.root) = <<>>
====
